---- MODULE Spec2Model ----
(***************************************************************************)
(* Model of the log-analytics RAG repository:                              *)
(*   - the batch variant (src/embedding_lambda): Config, CostTracker,      *)
(*     generate_embedding and lambda_handler;                              *)
(*   - the interactive variant (src/streamlit_app): CostTracker and        *)
(*     QueryCache kept in the Streamlit session state, and the             *)
(*     "Get Answer" flow of app.py;                                        *)
(*   - validate() of both configuration classes.                           *)
(* Python values are modelled as follows: a str is a TLA+ string, a dict   *)
(* is a function over its keys, a list is a sequence, None is NoneVal.     *)
(***************************************************************************)
EXTENDS Integers, Sequences, FiniteSets, TLC

VARIABLES
    Config,                 \* embedding_lambda Config: the flags read from the environment
    metrics,                \* cost_tracker.metrics (module level, main.py:19)
    embedding_cache,        \* embedding_cache (module level, main.py:32)
    pc,                     \* where the Lambda process is: idle / loop / returned
    data,                   \* lambda_handler's argument
    records,                \* lambda_handler local
    i,                      \* lambda_handler outer loop variable
    record_index,           \* lambda_handler inner loop variable
    processed_records,      \* lambda_handler local
    successful_embeddings,  \* lambda_handler local
    failed_embeddings,      \* lambda_handler local
    response,               \* lambda_handler's return value
    success_rate,           \* the success_rate field of the final log entry, in 1/100 percent
    call,                   \* observation of the latest generate_embedding call
    served,                 \* history: truncated text -> the vector the service returned for it
    results,                \* history: what generate_embedding gave for each record handled
    request_id,             \* lambda_handler local: the correlation id of the invocation
    now,                    \* time.time() / datetime.now(), in seconds
    variant,                \* which program the process runs: "batch" or "interactive"
    AppConfig,              \* streamlit_app AppConfig: the flags read from the environment
    cost_metrics,           \* st.session_state.cost_metrics
    query_cache,            \* st.session_state.query_cache, in insertion order
    hash_seed,              \* the seed of the process's str hash
    ret,                    \* observation of the latest call of a tracker or cache method
    exceeded,               \* history: the tracked tokens have been above the budget
    asked,                  \* history: the times at which track_query counted a request
    refused_at,             \* history: when check_rate_limits last refused at the hourly test
    env,                    \* the settings the configuration class resolved at import
    validation,             \* what validate() did at startup
    user_question,          \* app.py: the text in the question box at the latest run
    query_embedding,        \* app.py: handler local
    relevant_logs,          \* app.py: handler local
    answer,                 \* app.py: handler local
    ui,                     \* what the latest run of the script put on the page, in order
    requests                \* the calls to external services the latest run made, in order

batchVars == <<Config, metrics, embedding_cache, pc, data, records, i, record_index,
               processed_records, successful_embeddings, failed_embeddings, response,
               success_rate, call, served, results, request_id>>

sessionVars == <<variant, AppConfig, cost_metrics, query_cache, hash_seed, ret, exceeded,
                 asked, refused_at>>

configVars == <<env, validation>>

appVars == <<user_question, query_embedding, relevant_logs, answer, ui, requests>>

vars == <<batchVars, sessionVars, configVars, appVars, now>>

-----------------------------------------------------------------------------
(* Python values *)

NoneVal == "<None>"

\* dict.get(key, default)
Get(d, key, default) == IF key \in DOMAIN d THEN d[key] ELSE default

\* d[key] = value
Put(d, key, value) == [k \in DOMAIN d \cup {key} |-> IF k = key THEN value ELSE d[k]]

\* del d[key]
Del(d, key) == [k \in DOMAIN d \ {key} |-> d[k]]

EmptyDict == [k \in {} |-> NoneVal]

\* str(x) as an f-string renders it: None is "None", the default [] is "[]"
EmptyList == "<[]>"

Str(x) == IF x = NoneVal THEN "None" ELSE IF x = EmptyList THEN "[]" ELSE x

RECURSIVE LStrip(_)
LStrip(s) == IF Len(s) > 0 /\ SubSeq(s, 1, 1) = " " THEN LStrip(SubSeq(s, 2, Len(s))) ELSE s

RECURSIVE RStrip(_)
RStrip(s) == IF Len(s) > 0 /\ SubSeq(s, Len(s), Len(s)) = " "
             THEN RStrip(SubSeq(s, 1, Len(s) - 1)) ELSE s

\* str.strip()
Strip(s) == RStrip(LStrip(s))

\* hashlib.md5(text.encode()).hexdigest(), tabulated for the texts of the model
Md5(text) ==
    CASE text = ""     -> "d41d8cd98f00b204e9800998ecf8427e"
      [] text = "a"    -> "0cc175b9c0f1b6a831c399e269772661"
      [] text = "ab"   -> "187ef4436122d1cc2f40dc2b92f0eba0"
      [] text = "abc"  -> "900150983cd24fb0d6963f7d28e17f72"
      [] text = "["    -> "815417267f76f6f460a4a61f9db75fdb"
      [] text = "[]"   -> "d751713988987e9331980363e24189ce"
      [] text = "N"    -> "8d9c307cb7f3c4a32822a51922d1ceaa"
      [] text = "No"   -> "bafd7322c6e97d25b6299b5d6fe8920b"
      [] text = "Non"  -> "6679e65c932b2c5ad98080ee21a4f0d4"
      [] text = "None" -> "6adf97f83acf6453d4a6a4b1070f3754"

-----------------------------------------------------------------------------
(* Configuration of the batch variant (embedding_lambda/config.py) *)

MAX_TEXT_LENGTH == 2

MAX_TOKENS_PER_EXECUTION == 2

BEDROCK_MODEL_ID == "amazon.titan-embed-text-v1"

BATCH_SIZE == 2

Configs == [ENABLE_CACHING : BOOLEAN, ENABLE_COST_TRACKING : BOOLEAN]

-----------------------------------------------------------------------------
(* Inputs of the batch variant *)

MaxRecords == 3

MaxTrackedCalls == 3

\* Log records: two mappings with all four fields whose composite texts agree on the
\* first MAX_TEXT_LENGTH characters, a mapping without service, user_id and level whose
\* message is null, and an event that is no mapping at all (it has no .get)
RecAb == [message |-> "ab", service |-> "", user_id |-> "", level |-> ""]

RecAbc == [message |-> "abc", service |-> "", user_id |-> "", level |-> ""]

RecNull == [message |-> NoneVal, host |-> "h1"]

RecNoMapping == [nonmapping |-> "x"]

RecordSet == {RecAb, RecAbc, RecNull, RecNoMapping}

IsMapping(record) == "nonmapping" \notin DOMAIN record

\* The input collections: every run of at most MaxRecords consecutive records of the
\* cyclic pattern below, and an event document without an 'events' key
Pattern == <<RecAb, RecAbc, RecNoMapping, RecNull>>

Window(start, n) == [k \in 1..n |-> Pattern[((start + k - 2) % Len(Pattern)) + 1]]

DataSet == {[events |-> Window(start, n)] : start \in 1..Len(Pattern), n \in 0..MaxRecords}
           \cup {[source |-> "osi"]}

\* What the embedding service does with one request
Embeddings == {"v1", "v2"}

Outcomes == [kind : {"ok"}, embedding : Embeddings \cup {NoneVal}]
            \cup [kind : {"ClientError", "BotoCoreError", "Exception"}, embedding : {NoneVal}]

-----------------------------------------------------------------------------
(* CostTracker of the batch variant (embedding_lambda/logger.py) *)

NewMetrics == [total_tokens_processed |-> 0, total_embeddings_generated |-> 0,
               total_api_calls |-> 0, failed_requests |-> 0]

track_embedding_request_FailureNotCounted(m, text_length, success) ==
    IF ~Config.ENABLE_COST_TRACKING THEN m
    ELSE [m EXCEPT !.total_tokens_processed = @ + text_length,
                   !.total_api_calls = IF success THEN @ + 1 ELSE @,
                   !.total_embeddings_generated = IF success THEN @ + 1 ELSE @,
                   !.failed_requests = IF success THEN @ ELSE @ + 1]

\* lines 68-79
track_embedding_request(m, text_length, success) ==
    IF ~Config.ENABLE_COST_TRACKING THEN m
    ELSE [m EXCEPT !.total_tokens_processed = @ + text_length,
                   !.total_api_calls = @ + 1,
                   !.total_embeddings_generated = IF success THEN @ + 1 ELSE @,
                   !.failed_requests = IF success THEN @ ELSE @ + 1]

check_cost_limits_AlwaysPass(m) == TRUE

check_cost_limits_OneLate(m) ==
    IF ~Config.ENABLE_COST_TRACKING THEN TRUE
    ELSE m.total_tokens_processed <= MAX_TOKENS_PER_EXECUTION + MAX_TEXT_LENGTH

check_cost_limits(m) ==
    IF ~Config.ENABLE_COST_TRACKING THEN TRUE
    ELSE IF m.total_tokens_processed > MAX_TOKENS_PER_EXECUTION THEN FALSE
    ELSE TRUE

-----------------------------------------------------------------------------
(* generate_embedding (embedding_lambda/main.py) *)

Truncate_OneShort(text) ==
    IF Len(text) > MAX_TEXT_LENGTH THEN SubSeq(text, 1, MAX_TEXT_LENGTH - 1) ELSE text

\* lines 37-38
Truncate(text) == IF Len(text) > MAX_TEXT_LENGTH THEN SubSeq(text, 1, MAX_TEXT_LENGTH) ELSE text

\* lines 37-44: the entry logged when the text is cut; `text` has been rebound to
\* the prefix by the time len(text) is evaluated for original_length
TruncationLog(text0) ==
    IF Len(text0) > MAX_TEXT_LENGTH
    THEN LET text == SubSeq(text0, 1, MAX_TEXT_LENGTH)
         IN  <<[message |-> "Text truncated for embedding", original_length |-> Len(text),
                truncated_length |-> MAX_TEXT_LENGTH]>>
    ELSE <<>>

CacheHit_Never(cache, cache_key) == FALSE

\* lines 48-50: the cache is consulted and holds the key
CacheHit(cache, cache_key) == Config.ENABLE_CACHING /\ cache_key \in DOMAIN cache

CacheWrite_Replace(cache, cache_key, embedding) == Put(EmptyDict, cache_key, embedding)

\* line 78
CacheWrite(cache, cache_key, embedding) == Put(cache, cache_key, embedding)

Caught_NoCatchAll(kind) == kind \in {"ClientError", "BotoCoreError"}

\* lines 91, 105, 115: the except clauses around the invocation
Caught(kind) == kind \in {"ClientError", "BotoCoreError", "Exception"}

NoCall == [made |-> FALSE, text |-> "", truncated |-> "", cache_key |-> NoneVal,
           body |-> NoneVal, invoked |-> FALSE, outcome |-> NoneVal, result |-> NoneVal,
           raised |-> FALSE, tracked |-> <<>>, before |-> NewMetrics,
           cache_before |-> EmptyDict, repeat |-> FALSE, log |-> <<>>]

\* The value generate_embedding returns for `text0`, the tracker and cache it leaves,
\* and what it did on the way; `outcome` is what the service does if it is invoked.
generate_embedding(text0, m, cache, outcome) ==
    LET text == Truncate(text0)
        cache_key == IF Config.ENABLE_CACHING THEN Md5(text) ELSE NoneVal
        base == [made |-> TRUE, text |-> text0, truncated |-> text, cache_key |-> cache_key,
                 body |-> NoneVal, invoked |-> FALSE, outcome |-> NoneVal, result |-> NoneVal,
                 raised |-> FALSE, tracked |-> <<>>, before |-> m, cache_before |-> cache,
                 repeat |-> FALSE, log |-> TruncationLog(text0)]
    IN  IF CacheHit(cache, cache_key)
        THEN [obs |-> [base EXCEPT !.result = cache[cache_key],
                                   !.tracked = <<[text_length |-> Len(text), success |-> TRUE]>>],
              metrics |-> track_embedding_request(m, Len(text), TRUE),
              cache |-> cache]
        ELSE IF ~check_cost_limits(m)
        THEN [obs |-> base, metrics |-> m, cache |-> cache]
        ELSE IF outcome.kind = "ok"
        THEN [obs |-> [base EXCEPT !.body = text, !.invoked = TRUE, !.outcome = "ok",
                                   !.result = outcome.embedding,
                                   !.tracked = <<[text_length |-> Len(text), success |-> TRUE]>>],
              metrics |-> track_embedding_request(m, Len(text), TRUE),
              cache |-> IF Config.ENABLE_CACHING /\ cache_key # NoneVal
                        THEN CacheWrite(cache, cache_key, outcome.embedding) ELSE cache]
        ELSE IF Caught(outcome.kind)
        THEN [obs |-> [base EXCEPT !.body = text, !.invoked = TRUE, !.outcome = outcome.kind,
                                   !.tracked = <<[text_length |-> Len(text), success |-> FALSE]>>],
              metrics |-> track_embedding_request(m, Len(text), FALSE),
              cache |-> cache]
        ELSE [obs |-> [base EXCEPT !.body = text, !.invoked = TRUE, !.outcome = outcome.kind,
                                   !.raised = TRUE],
              metrics |-> m, cache |-> cache]

-----------------------------------------------------------------------------
(* Configuration of the interactive variant (streamlit_app/config.py) *)

MAX_TOKENS_PER_SESSION == 3

MAX_REQUESTS_PER_HOUR == 2

AppConfigs == [ENABLE_COST_TRACKING : BOOLEAN, ENABLE_QUERY_CACHING : BOOLEAN]

-----------------------------------------------------------------------------
(* CostTracker of the interactive variant (streamlit_app/logger.py) *)

HOUR == 3600

\* _init_session_state; session_start_time is only ever displayed and is left out,
\* estimated_cost is kept in units of 1e-9 dollars
NewCostMetrics == [total_queries |-> 0, total_tokens_processed |-> 0,
                   total_embeddings_generated |-> 0, total_llm_requests |-> 0,
                   estimated_cost |-> 0, hourly_requests |-> <<>>]

\* datetime.now().replace(minute=0, second=0, microsecond=0)
current_hour(t) == (t \div HOUR) * HOUR

track_query(cm, t) ==
    IF ~AppConfig.ENABLE_COST_TRACKING THEN cm
    ELSE LET appended == Append(cm.hourly_requests, current_hour(t))
             cutoff_time == current_hour(t) - 24 * HOUR
             Kept(req_time) == req_time >= cutoff_time
         IN  [cm EXCEPT !.total_queries = @ + 1,
                        !.hourly_requests = SelectSeq(appended, Kept)]

session_track_embedding_request(cm, text_length) ==
    IF ~AppConfig.ENABLE_COST_TRACKING THEN cm
    ELSE [cm EXCEPT !.total_tokens_processed = @ + text_length,
                    !.total_embeddings_generated = @ + 1,
                    !.estimated_cost = @ + text_length * 100]

track_llm_request(cm, input_tokens, output_tokens) ==
    IF ~AppConfig.ENABLE_COST_TRACKING THEN cm
    ELSE [cm EXCEPT !.total_llm_requests = @ + 1,
                    !.estimated_cost = @ + input_tokens * 3000 + output_tokens * 15000]

recent_requests_TwoHours(cm, t) ==
    LET Recent(req_time) == req_time >= current_hour(t) - 2 * HOUR
    IN  SelectSeq(cm.hourly_requests, Recent)

\* lines 155-159: the entries check_rate_limits counts toward the hourly limit
recent_requests(cm, t) ==
    LET Recent(req_time) == req_time >= current_hour(t) - HOUR
    IN  SelectSeq(cm.hourly_requests, Recent)

check_rate_limits_NoTokenCheck(cm, t) ==
    IF ~AppConfig.ENABLE_COST_TRACKING THEN TRUE
    ELSE LET Recent(req_time) == req_time >= current_hour(t) - HOUR
         IN  Len(SelectSeq(cm.hourly_requests, Recent)) < MAX_REQUESTS_PER_HOUR

check_rate_limits_CurrentHourOnly(cm, t) ==
    IF ~AppConfig.ENABLE_COST_TRACKING THEN TRUE
    ELSE LET Recent(req_time) == req_time >= current_hour(t)
         IN  IF Len(SelectSeq(cm.hourly_requests, Recent)) >= MAX_REQUESTS_PER_HOUR THEN FALSE
             ELSE IF cm.total_tokens_processed > MAX_TOKENS_PER_SESSION THEN FALSE
             ELSE TRUE

check_rate_limits(cm, t) ==
    IF ~AppConfig.ENABLE_COST_TRACKING THEN TRUE
    ELSE IF Len(recent_requests(cm, t)) >= MAX_REQUESTS_PER_HOUR THEN FALSE
    ELSE IF cm.total_tokens_processed > MAX_TOKENS_PER_SESSION THEN FALSE
    ELSE TRUE

\* lines 154-167: check_rate_limits takes the "Hourly rate limit exceeded" exit
HourlyLimitReached(cm, t) ==
    /\ AppConfig.ENABLE_COST_TRACKING
    /\ LET Recent(req_time) == req_time >= current_hour(t) - HOUR
       IN  Len(SelectSeq(cm.hourly_requests, Recent)) >= MAX_REQUESTS_PER_HOUR

-----------------------------------------------------------------------------
(* QueryCache of the interactive variant (streamlit_app/logger.py) *)

CACHE_TTL_SECONDS == 300

CACHE_MAX_ENTRIES == 50

Queries == {"qa", "qb", "qc"}

\* The (query, search_size) pairs the cache is called with
Requests == {<<"qb", 10>>, <<"qc", 10>>, <<"qb", 20>>}

Payloads == {"r1", "r2"}

\* hash(query): a str hash is a 64-bit value that depends on the seed the process
\* drew at start, and distinct strings can have the same hash. Two seeds are kept:
\* one under which the three queries hash apart, one under which "qb" and "qc" meet.
HashTables == <<[qa |-> 101, qb |-> 102, qc |-> 103], [qa |-> 101, qb |-> 102, qc |-> 102]>>

Hash(query) == HashTables[hash_seed][query]

\* f"{hash(query)}_{search_size}", as the pair it is built from
get_cache_key(query, search_size) == <<Hash(query), search_size>>

\* A dict item: key -> {'timestamp', 'data'}; `by` and `put_at` are history, the
\* (query, size) that stored the item and the time at which it did
Entry(query, search_size, result, t) ==
    [key |-> get_cache_key(query, search_size), timestamp |-> t, data |-> result,
     by |-> <<query, search_size>>, put_at |-> t]

\* The position of `key` in the dict, 0 when it is not there
IndexOf(cache, key) ==
    IF \E n \in 1..Len(cache) : cache[n].key = key
    THEN CHOOSE n \in 1..Len(cache) : cache[n].key = key
    ELSE 0

Remove(cache, n) == SubSeq(cache, 1, n - 1) \o SubSeq(cache, n + 1, Len(cache))

Fresh_Inclusive(t, timestamp) == t - timestamp <= CACHE_TTL_SECONDS

\* line 249
Fresh(t, timestamp) == t - timestamp < CACHE_TTL_SECONDS

\* QueryCache.get: the value returned and the cache it leaves
QueryCacheGet(cache, query, search_size, t) ==
    IF ~AppConfig.ENABLE_QUERY_CACHING THEN [value |-> NoneVal, cache |-> cache]
    ELSE LET n == IndexOf(cache, get_cache_key(query, search_size))
         IN  IF n = 0 THEN [value |-> NoneVal, cache |-> cache]
             ELSE IF Fresh(t, cache[n].timestamp) THEN [value |-> cache[n].data, cache |-> cache]
             ELSE [value |-> NoneVal, cache |-> Remove(cache, n)]

OverCapacity_OneMore(n) == n > CACHE_MAX_ENTRIES + 1

\* line 270
OverCapacity(n) == n > CACHE_MAX_ENTRIES

OldestIndex_First(cache) == 1

\* lines 271-274: min() over the keys by timestamp returns the first of the smallest
OldestIndex(cache) ==
    CHOOSE n \in 1..Len(cache) :
        \A m \in 1..Len(cache) : /\ cache[m].timestamp >= cache[n].timestamp
                                 /\ m < n => cache[m].timestamp > cache[n].timestamp

\* QueryCache.set: the cache it leaves
QueryCacheSet(cache, query, search_size, result, t) ==
    IF ~AppConfig.ENABLE_QUERY_CACHING THEN cache
    ELSE LET n == IndexOf(cache, get_cache_key(query, search_size))
             entry == Entry(query, search_size, result, t)
             stored == IF n = 0 THEN Append(cache, entry) ELSE [cache EXCEPT ![n] = entry]
         IN  IF OverCapacity(Len(stored)) THEN Remove(stored, OldestIndex(stored)) ELSE stored

-----------------------------------------------------------------------------
(* validate() of both configuration classes *)

PLACEHOLDER_HOST == "YOUR_OPENSEARCH_SERVERLESS_ENDPOINT"

\* The settings embedding_lambda Config.validate reads, as resolved in the other
\* specifications of this module
BatchEnv == [MAX_TEXT_LENGTH |-> MAX_TEXT_LENGTH, BATCH_SIZE |-> BATCH_SIZE,
             BEDROCK_TIMEOUT |-> 30, BEDROCK_MAX_RETRIES |-> 3]

\* The numeric settings of streamlit_app AppConfig and its search host
AppEnv == [OPENSEARCH_HOST |-> "search.example", DEFAULT_SEARCH_SIZE |-> 10,
           MAX_SEARCH_SIZE |-> 50, MAX_QUERY_LENGTH |-> 500,
           MAX_TOKENS_PER_SESSION |-> MAX_TOKENS_PER_SESSION,
           BEDROCK_TIMEOUT |-> 30, BEDROCK_MAX_RETRIES |-> 3]

\* Values an integer setting can resolve to: int() accepts any integer
BatchEnvs == [MAX_TEXT_LENGTH : {0, 1}, BATCH_SIZE : {0, 1},
              BEDROCK_TIMEOUT : {0, 1}, BEDROCK_MAX_RETRIES : {-1, 0}]

AppEnvs == [OPENSEARCH_HOST : {PLACEHOLDER_HOST, "search.example"},
            DEFAULT_SEARCH_SIZE : {0, 1, 2}, MAX_SEARCH_SIZE : {0, 1, 2},
            MAX_QUERY_LENGTH : {0, 1}, MAX_TOKENS_PER_SESSION : {0, 1},
            BEDROCK_TIMEOUT : {0, 1}, BEDROCK_MAX_RETRIES : {-1, 0}]

\* embedding_lambda Config.validate: True, or the ValueError made from the first
\* assert that fails
validate(e) ==
    LET failed == IF ~(e.MAX_TEXT_LENGTH > 0) THEN "MAX_TEXT_LENGTH must be positive"
                  ELSE IF ~(e.BATCH_SIZE > 0) THEN "BATCH_SIZE must be positive"
                  ELSE IF ~(e.BEDROCK_TIMEOUT > 0) THEN "BEDROCK_TIMEOUT must be positive"
                  ELSE IF ~(e.BEDROCK_MAX_RETRIES >= 0)
                  THEN "BEDROCK_MAX_RETRIES must be non-negative"
                  ELSE NoneVal
    IN  IF failed = NoneVal THEN [value |-> TRUE, raised |-> NoneVal]
        ELSE [value |-> NoneVal, raised |-> "Configuration validation failed: " \o failed]

\* streamlit_app AppConfig.validate: the errors dict
app_validate(e) ==
    LET e1 == IF e.OPENSEARCH_HOST = PLACEHOLDER_HOST
              THEN Put(EmptyDict, "opensearch_host", "Please configure OpenSearch host endpoint")
              ELSE EmptyDict
        e2 == IF e.MAX_SEARCH_SIZE < e.DEFAULT_SEARCH_SIZE
              THEN Put(e1, "search_size", "MAX_SEARCH_SIZE must be >= DEFAULT_SEARCH_SIZE")
              ELSE e1
        e3 == IF e.MAX_QUERY_LENGTH <= 0
              THEN Put(e2, "query_length", "MAX_QUERY_LENGTH must be positive")
              ELSE e2
        e4 == IF e.MAX_TOKENS_PER_SESSION <= 0
              THEN Put(e3, "token_limit", "MAX_TOKENS_PER_SESSION must be positive")
              ELSE e3
    IN  [value |-> e4, raised |-> NoneVal]

NotValidated == [done |-> FALSE]

\* The "Get Answer" button has not been pressed in this session
AppIdle ==
    /\ user_question = ""
    /\ query_embedding = NoneVal
    /\ relevant_logs = <<>>
    /\ answer = NoneVal
    /\ ui = <<>>
    /\ requests = <<>>

\* One element the script put on the page: st.error, st.warning, st.write, ...
Shown(kind, text) == [kind |-> kind, text |-> text]

\* The keys of the errors dict in the order validate() inserts them
ErrorKeys == <<"opensearch_host", "search_size", "query_length", "token_limit">>

\* The process got past its startup validation with the settings of this module
Started ==
    /\ env = IF variant = "batch" THEN BatchEnv ELSE AppEnv
    /\ validation = [done |-> TRUE,
                     result |-> IF variant = "batch" THEN validate(env) ELSE app_validate(env)]
    /\ AppIdle

-----------------------------------------------------------------------------
(* The "Get Answer" flow (streamlit_app/app.py) *)

\* What the user can have typed into the question box
Questions == {"", " ", "q", "qq"}

\* What the search service does with one request: the messages of the hits, or an error
SearchOutcomes == [kind : {"ok"}, hits : {<<>>, <<"m1">>, <<"m1", "m2">>}]
                  \cup [kind : {"Exception"}, hits : {<<>>}]

\* One call to an external service, and how the service answered it
Request(service, body, outcome) == [service |-> service, body |-> body, outcome |-> outcome]

Blank_EmptyOnly(text) == text = ""

\* line 81: not text or not text.strip()
Blank(text) == text = "" \/ Strip(text) = ""

\* get_embedding: the value returned, the tracker it leaves, what it showed and
\* the requests it made
get_embedding(text, cm, outcome) ==
    IF Blank(text)
    THEN [value |-> NoneVal, cost_metrics |-> cm, tracked |-> FALSE, ui |-> <<>>, requests |-> <<>>]
    ELSE LET tracked == session_track_embedding_request(cm, Len(text))
             sent == <<Request("embedding", text, outcome.kind)>>
         IN  IF outcome.kind = "ok"
             THEN [value |-> outcome.embedding, cost_metrics |-> tracked, tracked |-> TRUE,
                   ui |-> <<>>, requests |-> sent]
             ELSE IF outcome.kind = "ClientError"
             THEN [value |-> NoneVal, cost_metrics |-> tracked, tracked |-> TRUE,
                   ui |-> <<Shown("error", "Bedrock API error")>>, requests |-> sent]
             ELSE [value |-> NoneVal, cost_metrics |-> tracked, tracked |-> TRUE,
                   ui |-> <<Shown("error", "Error generating embedding")>>, requests |-> sent]

\* search_logs: the messages returned, what it showed and the requests it made
search_logs(query_vector, k, outcome) ==
    IF query_vector = NoneVal THEN [value |-> <<>>, ui |-> <<>>, requests |-> <<>>]
    ELSE LET sent == <<Request("search", [vector |-> query_vector, k |-> k], outcome.kind)>>
         IN  IF outcome.kind = "ok"
             THEN [value |-> outcome.hits, ui |-> <<>>, requests |-> sent]
             ELSE [value |-> <<>>, ui |-> <<Shown("error", "Error searching logs")>>,
                   requests |-> sent]

\* "\n".join(logs)
RECURSIVE Join(_)
Join(logs) ==
    IF Len(logs) = 0 THEN ""
    ELSE IF Len(logs) = 1 THEN logs[1]
    ELSE logs[1] \o "\n" \o Join(Tail(logs))

\* lines 150-162, the instruction paragraph shortened to its first and last sentence
Prompt(question, logs) ==
    "You are an expert AIOps assistant. If the answer cannot be found in the logs, "
    \o "you must state 'I cannot answer the question based on the provided logs.'"
    \o "\n<logs>\n" \o Join(logs) \o "\n</logs>\n<question>\n" \o question \o "\n</question>"

\* get_llm_response: `return prompt` on line 164 ends the function, the invocation
\* of the model on lines 165-177 is never reached
get_llm_response(question, logs) ==
    [value |-> Prompt(question, logs), ui |-> <<>>, requests |-> <<>>]

-----------------------------------------------------------------------------
(* The interactive session *)

NoRet == [op |-> "none"]

\* No refusal at the hourly test so far
Never == -1

\* A new Streamlit session: both _init_session_state methods
SessionInit ==
    /\ cost_metrics = NewCostMetrics
    /\ query_cache = <<>>
    /\ ret = NoRet
    /\ exceeded = FALSE
    /\ asked = <<>>
    /\ refused_at = Never

-----------------------------------------------------------------------------
(* StructuredLogger (embedding_lambda/logger.py) *)

\* A value json.dumps has no encoding for
Unserializable == "<object>"

\* The context objects the handler is invoked with: the runtime's, and one whose
\* aws_request_id is not a string or number
Contexts == {[given |-> TRUE, aws_request_id |-> "req-1"],
             [given |-> TRUE, aws_request_id |-> Unserializable]}

\* _log_structured: the entry keeps the fields that are not None and json.dumps of
\* it raises TypeError when one of them cannot be serialized; nothing catches it
LogRaises(fields) == \E k \in DOMAIN fields : fields[k] = Unserializable

-----------------------------------------------------------------------------
(* lambda_handler (embedding_lambda/main.py) *)

full_message(record) ==
    Strip(Str(Get(record, "service", EmptyList)) \o " " \o Str(Get(record, "user_id", "")) \o " "
          \o Str(Get(record, "level", "")) \o " " \o Str(Get(record, "message", "")))

SuccessRate_FullOnEmpty(successful, n) == IF n = 0 THEN 10000 ELSE (successful * 20000 + n) \div (2 * n)

\* round((successful_embeddings / len(records)) * 100, 2) if records else 0, in 1/100 percent
SuccessRate(successful, n) == IF n = 0 THEN 0 ELSE (successful * 20000 + n) \div (2 * n)

Annotate_NoTimestamp(record, embedding) ==
    Put(Put(record, "log_embedding", embedding), "embedding_model", BEDROCK_MODEL_ID)

Annotate(record, embedding) ==
    Put(Put(Put(record, "log_embedding", embedding), "embedding_model", BEDROCK_MODEL_ID),
        "embedding_timestamp", now)

\* The history entry of a record whose handling raised before or inside the call
Raised == "<raised>"

\* line 160, `if embedding:`: None and an empty list are both false
Truthy(embedding) == embedding # NoneVal /\ embedding # EmptyList

AppendFailed_Dropped(processed, record) == processed

\* line 188: the except branch still emits the record
AppendFailed(processed, record) == Append(processed, record)

\* The loop variables after the record at (i, record_index) has been handled
NextPosition(n, size, outer, inner) ==
    IF inner + 1 < (IF outer + size < n THEN size ELSE n - outer)
    THEN <<outer, inner + 1>>
    ELSE <<outer + size, 0>>

\* The Lambda process after import: lines 14-32
BatchInit ==
    /\ metrics = NewMetrics
    /\ embedding_cache = EmptyDict
    /\ pc = "idle"
    /\ data = [source |-> "osi"]
    /\ records = <<>>
    /\ i = 0
    /\ record_index = 0
    /\ processed_records = <<>>
    /\ successful_embeddings = 0
    /\ failed_embeddings = 0
    /\ response = [events |-> <<>>]
    /\ success_rate = 0
    /\ call = NoCall
    /\ served = EmptyDict
    /\ results = <<>>
    /\ request_id = "unknown"

Init ==
    /\ variant = "batch"
    /\ Config \in Configs
    /\ BatchInit
    /\ AppConfig = [ENABLE_COST_TRACKING |-> TRUE, ENABLE_QUERY_CACHING |-> TRUE]
    /\ SessionInit
    /\ hash_seed = 0
    /\ now = 0
    /\ Started

\* lambda_handler is called: lines 131-147. The "Lambda execution started" entry of
\* line 134 is written outside any try: when the logger raises, the handler is left
\* with the exception and nothing after line 139 runs.
LambdaStart(d, context) ==
    /\ pc \in {"idle", "returned", "raised"}
    /\ metrics.total_api_calls < MaxTrackedCalls
    /\ request_id' = IF context.given THEN context.aws_request_id ELSE "unknown"
    /\ data' = d
    /\ records' = Get(d, "events", <<>>)
    /\ call' = NoCall
    /\ results' = <<>>
    /\ IF LogRaises([lambda_request_id |-> request_id'])   \* record_count is a number
       THEN /\ pc' = "raised"
            /\ UNCHANGED <<i, record_index, processed_records, successful_embeddings,
                           failed_embeddings>>
       ELSE /\ pc' = "loop"
            /\ i' = 0
            /\ record_index' = 0
            /\ processed_records' = <<>>
            /\ successful_embeddings' = 0
            /\ failed_embeddings' = 0
    /\ UNCHANGED <<Config, metrics, embedding_cache, response, success_rate, served, now>>
    /\ UNCHANGED sessionVars
    /\ UNCHANGED <<configVars, appVars>>

\* One iteration of the inner loop, lines 151-188
ProcessRecord(outcome) ==
    /\ pc = "loop"
    /\ i < Len(records)
    /\ LET record == records[i + record_index + 1]   \* sequences count from 1
           batch_size == IF BATCH_SIZE < Len(records) THEN BATCH_SIZE ELSE Len(records)
           pos == NextPosition(Len(records), IF batch_size < 1 THEN 1 ELSE batch_size, i, record_index)
       IN  /\ i' = pos[1]
           /\ record_index' = pos[2]
           /\ IF ~IsMapping(record)
              THEN \* record.get raises AttributeError: the except branch
                   /\ failed_embeddings' = failed_embeddings + 1
                   /\ processed_records' = AppendFailed(processed_records, record)
                   /\ call' = NoCall
                   /\ results' = Append(results, Raised)
                   /\ UNCHANGED <<metrics, embedding_cache, successful_embeddings, served>>
              ELSE LET log_message == Get(record, "message", "")
                       r == generate_embedding(full_message(record), metrics, embedding_cache, outcome)
                       embedding == r.obs.result
                   IN  /\ metrics' = r.metrics
                       /\ embedding_cache' = r.cache
                       /\ call' = [r.obs EXCEPT !.repeat = r.obs.truncated \in DOMAIN served]
                       /\ results' = Append(results, IF r.obs.raised THEN Raised ELSE embedding)
                       /\ served' = IF Config.ENABLE_CACHING /\ r.obs.invoked /\ r.obs.outcome = "ok"
                                       /\ embedding # NoneVal /\ ~r.obs.repeat
                                    THEN Put(served, r.obs.truncated, embedding) ELSE served
                       /\ IF r.obs.raised
                          THEN \* an exception out of generate_embedding: the except branch
                               /\ failed_embeddings' = failed_embeddings + 1
                               /\ processed_records' = AppendFailed(processed_records, record)
                               /\ UNCHANGED successful_embeddings
                          ELSE IF Truthy(embedding)
                          THEN /\ processed_records' = Append(processed_records, Annotate(record, embedding))
                               /\ successful_embeddings' = successful_embeddings + 1
                               /\ UNCHANGED failed_embeddings
                          ELSE \* len(log_message) raises TypeError when the message is null:
                               \* the except branch counts the record a second time
                               /\ failed_embeddings' = failed_embeddings
                                                       + (IF log_message = NoneVal THEN 2 ELSE 1)
                               /\ processed_records' = IF log_message = NoneVal
                                                       THEN AppendFailed(processed_records, record)
                                                       ELSE Append(processed_records, record)
                               /\ UNCHANGED successful_embeddings
    /\ UNCHANGED <<Config, pc, data, records, response, success_rate, request_id, now>>
    /\ UNCHANGED sessionVars
    /\ UNCHANGED <<configVars, appVars>>

\* The loop is over: lines 190-202
LambdaReturn ==
    /\ pc = "loop"
    /\ ~(i < Len(records))
    /\ pc' = "returned"
    /\ response' = [events |-> processed_records]
    /\ success_rate' = SuccessRate(successful_embeddings, Len(records))
    /\ call' = NoCall
    /\ UNCHANGED <<Config, metrics, embedding_cache, data, records, i, record_index,
                   processed_records, successful_embeddings, failed_embeddings, served, results,
                   request_id, now>>
    /\ UNCHANGED sessionVars
    /\ UNCHANGED <<configVars, appVars>>

Next ==
    \/ \E d \in DataSet, context \in Contexts : LambdaStart(d, context)
    \/ \E outcome \in Outcomes : ProcessRecord(outcome)
    \/ LambdaReturn

Spec == Init /\ [][Next]_vars

-----------------------------------------------------------------------------
(* The tracker methods called one at a time, in either variant *)

MaxQueries == 3

MaxSessionEmbeddings == 3

MaxLlmRequests == 1

TrackerMaxNow == 10800

TrackerTickSteps == {1800}

TextLengths == 0..MAX_TEXT_LENGTH

LlmTokenCounts == {<<1, 1>>, <<2, 1>>}

lambdaVars == <<embedding_cache, pc, data, records, i, record_index, processed_records,
                successful_embeddings, failed_embeddings, response, success_rate, call, served, results,
                request_id>>

InitTracker ==
    /\ variant \in {"batch", "interactive"}
    /\ Config \in [ENABLE_CACHING : {FALSE}, ENABLE_COST_TRACKING : BOOLEAN]
    /\ BatchInit
    /\ AppConfig \in [ENABLE_COST_TRACKING : BOOLEAN, ENABLE_QUERY_CACHING : {TRUE}]
    /\ SessionInit
    /\ hash_seed = 1
    /\ now = 0
    /\ Started

\* The clock moves on
Tick(step, limit) ==
    /\ now + step <= limit
    /\ now' = now + step
    /\ UNCHANGED <<batchVars, sessionVars>>
    /\ UNCHANGED <<configVars, appVars>>

\* embedding_lambda CostTracker.track_embedding_request
TrackEmbeddingRequest(text_length, success) ==
    /\ variant = "batch"
    /\ metrics.total_api_calls < MaxTrackedCalls
    /\ metrics' = track_embedding_request(metrics, text_length, success)
    /\ ret' = [op |-> "track_embedding_request"]
    /\ exceeded' = (exceeded \/ metrics'.total_tokens_processed > MAX_TOKENS_PER_EXECUTION)
    /\ UNCHANGED <<Config, lambdaVars, variant, AppConfig, cost_metrics, query_cache, hash_seed, asked, refused_at, now>>
    /\ UNCHANGED <<configVars, appVars>>

\* embedding_lambda CostTracker.check_cost_limits
CheckCostLimits ==
    /\ variant = "batch"
    /\ ret' = [op |-> "check_cost_limits", value |-> check_cost_limits(metrics)]
    /\ UNCHANGED <<batchVars, variant, AppConfig, cost_metrics, query_cache, hash_seed, exceeded, asked, refused_at, now>>
    /\ UNCHANGED <<configVars, appVars>>

\* embedding_lambda CostTracker.log_final_metrics: it reads the counters and logs them
LogFinalMetrics ==
    /\ variant = "batch"
    /\ ret' = [op |-> "log_final_metrics"]
    /\ UNCHANGED <<batchVars, variant, AppConfig, cost_metrics, query_cache, hash_seed, exceeded, asked, refused_at, now>>
    /\ UNCHANGED <<configVars, appVars>>

\* streamlit_app CostTracker.track_query
TrackQuery ==
    /\ variant = "interactive"
    /\ cost_metrics.total_queries < MaxQueries
    /\ cost_metrics' = track_query(cost_metrics, now)
    /\ ret' = [op |-> "track_query"]
    /\ asked' = IF AppConfig.ENABLE_COST_TRACKING THEN Append(asked, now) ELSE asked
    /\ UNCHANGED <<batchVars, variant, AppConfig, query_cache, hash_seed, exceeded, refused_at, now>>
    /\ UNCHANGED <<configVars, appVars>>

\* streamlit_app CostTracker.track_embedding_request
SessionTrackEmbeddingRequest(text_length) ==
    /\ variant = "interactive"
    /\ cost_metrics.total_embeddings_generated < MaxSessionEmbeddings
    /\ cost_metrics' = session_track_embedding_request(cost_metrics, text_length)
    /\ ret' = [op |-> "track_embedding_request"]
    /\ exceeded' = (exceeded \/ cost_metrics'.total_tokens_processed > MAX_TOKENS_PER_SESSION)
    /\ UNCHANGED <<batchVars, variant, AppConfig, query_cache, hash_seed, asked, refused_at, now>>
    /\ UNCHANGED <<configVars, appVars>>

\* streamlit_app CostTracker.track_llm_request
TrackLlmRequest(input_tokens, output_tokens) ==
    /\ variant = "interactive"
    /\ cost_metrics.total_llm_requests < MaxLlmRequests
    /\ cost_metrics' = track_llm_request(cost_metrics, input_tokens, output_tokens)
    /\ ret' = [op |-> "track_llm_request"]
    /\ UNCHANGED <<batchVars, variant, AppConfig, query_cache, hash_seed, exceeded, asked, refused_at, now>>
    /\ UNCHANGED <<configVars, appVars>>

\* streamlit_app CostTracker.check_rate_limits
CheckRateLimits ==
    /\ variant = "interactive"
    /\ ret' = [op |-> "check_rate_limits", value |-> check_rate_limits(cost_metrics, now),
                at |-> now, refused_before |-> refused_at]
    /\ refused_at' = IF HourlyLimitReached(cost_metrics, now) THEN now ELSE refused_at
    /\ UNCHANGED <<batchVars, variant, AppConfig, cost_metrics, query_cache, hash_seed, exceeded, asked, now>>
    /\ UNCHANGED <<configVars, appVars>>

NextTracker ==
    \/ \E text_length \in TextLengths, success \in BOOLEAN : TrackEmbeddingRequest(text_length, success)
    \/ CheckCostLimits
    \/ LogFinalMetrics
    \/ TrackQuery
    \/ \E text_length \in TextLengths : SessionTrackEmbeddingRequest(text_length)
    \/ \E tokens \in LlmTokenCounts : TrackLlmRequest(tokens[1], tokens[2])
    \/ CheckRateLimits
    \/ \E step \in TrackerTickSteps : Tick(step, TrackerMaxNow)

SpecTracker == InitTracker /\ [][NextTracker]_vars

-----------------------------------------------------------------------------
(* The query cache methods called one at a time *)

CacheMaxNow == 300

CacheTickSteps == {150}

\* A new session
InitQueryCache ==
    /\ variant = "interactive"
    /\ Config = [ENABLE_CACHING |-> FALSE, ENABLE_COST_TRACKING |-> TRUE]
    /\ BatchInit
    /\ AppConfig \in [ENABLE_COST_TRACKING : {TRUE}, ENABLE_QUERY_CACHING : BOOLEAN]
    /\ hash_seed \in 1..Len(HashTables)
    /\ SessionInit
    /\ now = 0
    /\ Started

Items(cache) == {cache[n] : n \in 1..Len(cache)}

Keys(cache) == {cache[n].key : n \in 1..Len(cache)}

\* QueryCache.get; `found` is the item under the key when the call began
CacheGet(query, search_size) ==
    /\ variant = "interactive"
    /\ LET r == QueryCacheGet(query_cache, query, search_size, now)
           key == get_cache_key(query, search_size)
       IN  /\ query_cache' = r.cache
           /\ ret' = [op |-> "get", query |-> query, search_size |-> search_size,
                      value |-> r.value, at |-> now, len_before |-> Len(query_cache),
                      found |-> {e \in Items(query_cache) : e.key = key},
                      gone |-> {e \in Items(query_cache) : e.key \notin Keys(r.cache)}]
    /\ UNCHANGED <<batchVars, variant, AppConfig, cost_metrics, hash_seed, exceeded, asked, refused_at, now>>
    /\ UNCHANGED <<configVars, appVars>>

\* QueryCache.set; `gone` are the items the call removed for good
CacheSet(query, search_size, result) ==
    /\ variant = "interactive"
    /\ LET after == QueryCacheSet(query_cache, query, search_size, result, now)
           key == get_cache_key(query, search_size)
       IN  /\ query_cache' = after
           /\ ret' = [op |-> "set", query |-> query, search_size |-> search_size,
                      value |-> result, at |-> now, len_before |-> Len(query_cache),
                      found |-> {e \in Items(query_cache) : e.key = key},
                      gone |-> {e \in Items(query_cache) \cup {Entry(query, search_size, result, now)} :
                                   e.key \notin Keys(after)}]
    /\ UNCHANGED <<batchVars, variant, AppConfig, cost_metrics, hash_seed, exceeded, asked, refused_at, now>>
    /\ UNCHANGED <<configVars, appVars>>

NextQueryCache ==
    \/ \E request \in Requests : CacheGet(request[1], request[2])
    \/ \E request \in Requests, result \in Payloads : CacheSet(request[1], request[2], result)
    \/ \E step \in CacheTickSteps : Tick(step, CacheMaxNow)

SpecQueryCache == InitQueryCache /\ [][NextQueryCache]_vars

-----------------------------------------------------------------------------
(* The query cache methods called one at a time on a cache that is nearly full *)

FillerCount == 48

\* The cache of a session in which set("qa", 10, "r1") and then FillerCount sets of
\* other queries, each with a hash of its own, have been called, all in second 0
Filler(n) == [key |-> <<n, 10>>, timestamp |-> 0, data |-> "r0",
              by |-> <<"filler" \o ToString(n), 10>>, put_at |-> 0]

Prefilled == <<Entry("qa", 10, "r1", 0)>> \o [n \in 1..FillerCount |-> Filler(n)]

FullRequests == {<<"qa", 10>>, <<"qb", 10>>, <<"qc", 10>>}

FullPayloads == {"r1"}

InitQueryCacheFull ==
    /\ variant = "interactive"
    /\ Config = [ENABLE_CACHING |-> FALSE, ENABLE_COST_TRACKING |-> TRUE]
    /\ BatchInit
    /\ AppConfig = [ENABLE_COST_TRACKING |-> TRUE, ENABLE_QUERY_CACHING |-> TRUE]
    /\ hash_seed \in 1..Len(HashTables)
    /\ cost_metrics = NewCostMetrics
    /\ query_cache = Prefilled
    /\ ret = NoRet
    /\ exceeded = FALSE
    /\ asked = <<>>
    /\ refused_at = Never
    /\ now = 0
    /\ Started

NextQueryCacheFull ==
    \/ \E request \in FullRequests : CacheGet(request[1], request[2])
    \/ \E request \in FullRequests, result \in FullPayloads :
           CacheSet(request[1], request[2], result)
    \/ \E step \in CacheTickSteps : Tick(step, CacheMaxNow)

SpecQueryCacheFull == InitQueryCacheFull /\ [][NextQueryCacheFull]_vars

-----------------------------------------------------------------------------
(* Startup validation of a process whose settings are drawn from the environment *)

InitConfig ==
    /\ variant \in {"batch", "interactive"}
    /\ Config = [ENABLE_CACHING |-> FALSE, ENABLE_COST_TRACKING |-> TRUE]
    /\ BatchInit
    /\ AppConfig = [ENABLE_COST_TRACKING |-> TRUE, ENABLE_QUERY_CACHING |-> TRUE]
    /\ SessionInit
    /\ hash_seed = 1
    /\ env \in (IF variant = "batch" THEN BatchEnvs ELSE AppEnvs)
    /\ validation = NotValidated
    /\ AppIdle
    /\ now = 0

\* embedding_lambda/main.py line 15: an error raised here ends the import
ConfigValidate ==
    /\ variant = "batch"
    /\ ~validation.done
    /\ validation' = [done |-> TRUE, result |-> validate(env)]
    /\ pc' = IF validate(env).raised # NoneVal THEN "import failed" ELSE pc
    /\ UNCHANGED <<Config, metrics, embedding_cache, data, records, i, record_index,
                   processed_records, successful_embeddings, failed_embeddings, response,
                   success_rate, call, served, results, request_id>>
    /\ UNCHANGED <<sessionVars, env, appVars, now>>

\* streamlit_app/app.py lines 18-23: the errors are shown and the script stops
AppConfigValidate ==
    /\ variant = "interactive"
    /\ ~validation.done
    /\ LET config_errors == app_validate(env).value
           InErrors(key) == key \in DOMAIN config_errors
           keys == SelectSeq(ErrorKeys, InErrors)
       IN  /\ validation' = [done |-> TRUE, result |-> app_validate(env)]
           /\ ui' = IF config_errors # EmptyDict
                    THEN <<Shown("error", "Configuration errors detected:")>>
                         \o [n \in 1..Len(keys) |-> Shown("error", "* " \o config_errors[keys[n]])]
                    ELSE ui
    /\ UNCHANGED <<batchVars, sessionVars, env, user_question, query_embedding,
                   relevant_logs, answer, requests, now>>

NextConfig ==
    \/ ConfigValidate
    \/ AppConfigValidate

SpecConfig == InitConfig /\ [][NextConfig]_vars

-----------------------------------------------------------------------------
(* A session of the app in which the user presses "Get Answer" again and again *)

InitApp ==
    /\ variant = "interactive"
    /\ Config = [ENABLE_CACHING |-> FALSE, ENABLE_COST_TRACKING |-> TRUE]
    /\ BatchInit
    /\ AppConfig \in [ENABLE_COST_TRACKING : BOOLEAN, ENABLE_QUERY_CACHING : {TRUE}]
    /\ SessionInit
    /\ hash_seed = 1
    /\ now = 0
    /\ Started

\* One run of the script with the button pressed: lines 185-210
GetAnswer(question, embed_outcome, search_outcome) ==
    /\ variant = "interactive"
    /\ cost_metrics.total_embeddings_generated < MaxSessionEmbeddings
    /\ user_question' = question
    /\ IF question = ""
       THEN /\ ui' = <<Shown("warning", "Please enter a question.")>>
            /\ query_embedding' = NoneVal
            /\ relevant_logs' = <<>>
            /\ answer' = NoneVal
            /\ requests' = <<>>
            /\ UNCHANGED <<cost_metrics, ret, exceeded>>
       ELSE LET embedded == get_embedding(question, cost_metrics, embed_outcome)
                found == search_logs(embedded.value, 10, search_outcome)
                llm == get_llm_response(question, found.value)
            IN  /\ query_embedding' = embedded.value
                /\ relevant_logs' = found.value
                /\ cost_metrics' = embedded.cost_metrics
                /\ ret' = IF embedded.tracked
                          THEN [op |-> "track_embedding_request", before |-> cost_metrics]
                          ELSE ret
                /\ exceeded' = (exceeded \/ embedded.cost_metrics.total_tokens_processed
                                                > MAX_TOKENS_PER_SESSION)
                /\ IF found.value = <<>>
                   THEN /\ answer' = NoneVal
                        /\ requests' = embedded.requests \o found.requests
                        /\ ui' = <<Shown("write", "Step 1: Generating embedding for your question...")>>
                                 \o embedded.ui
                                 \o <<Shown("write", "Step 2: Searching for relevant logs in OpenSearch...")>>
                                 \o found.ui
                                 \o <<Shown("warning", "No relevant logs found for your question.")>>
                   ELSE /\ answer' = llm.value
                        /\ requests' = embedded.requests \o found.requests \o llm.requests
                        /\ ui' = <<Shown("write", "Step 1: Generating embedding for your question...")>>
                                 \o embedded.ui
                                 \o <<Shown("write", "Step 2: Searching for relevant logs in OpenSearch...")>>
                                 \o found.ui
                                 \o <<Shown("write", "Step 3: Found " \o ToString(Len(found.value))
                                                   \o " relevant logs. Synthesizing an answer with Claude...")>>
                                 \o llm.ui
                                 \o <<Shown("success", "Answer:"), Shown("markdown", llm.value),
                                      Shown("json", found.value)>>
    /\ UNCHANGED <<batchVars, variant, AppConfig, query_cache, hash_seed, asked, refused_at,
                   configVars, now>>

NextApp ==
    \E question \in Questions, embed_outcome \in Outcomes, search_outcome \in SearchOutcomes :
        GetAnswer(question, embed_outcome, search_outcome)

SpecApp == InitApp /\ [][NextApp]_vars

-----------------------------------------------------------------------------
(* The batch variant: properties *)

AnnotationFields == {"log_embedding", "embedding_model", "embedding_timestamp"}

\* `out` is the input record `in`, with nothing but annotation fields added
IsRecord(out, in) ==
    /\ DOMAIN in \subseteq DOMAIN out
    /\ DOMAIN out \ DOMAIN in \subseteq AnnotationFields
    /\ \A k \in DOMAIN in : out[k] = in[k]

InputEvents == Get(data, "events", <<>>)

\* C1: the 'events' sequence the batch handler returns has as many records as the
\* input, and its j-th record is the j-th input record, whatever embeddings failed
\* and whatever exceptions the records raised.
C1_OutputKeepsEveryRecord ==
    pc = "returned" =>
        /\ Len(response.events) = Len(InputEvents)
        /\ \A j \in 1..Len(InputEvents) : IsRecord(response.events[j], InputEvents[j])

C1_Witness ==
    /\ pc = "returned"
    /\ Len(response.events) = 3
    /\ successful_embeddings > 0
    /\ failed_embeddings > 0
    /\ \E j \in 1..3 : ~IsMapping(response.events[j])

FailureKinds == {"ClientError", "BotoCoreError", "Exception"}

InvocationFailed == call.made /\ call.invoked /\ call.outcome \in FailureKinds

\* C2: when the external invocation fails (service error, transport error or any
\* other exception), generate_embedding returns absent, hands the tracker exactly one
\* failed usage event carrying the length of the text it sent (which the tracker
\* adds to its counters when tracking is enabled), and raises nothing.
C2_FailureIsAbsentAndTrackedOnce ==
    InvocationFailed =>
        /\ call.result = NoneVal
        /\ ~call.raised
        /\ call.tracked = <<[text_length |-> Len(call.body), success |-> FALSE]>>
        /\ metrics = IF Config.ENABLE_COST_TRACKING
                     THEN [total_tokens_processed |-> call.before.total_tokens_processed + Len(call.body),
                           total_api_calls |-> call.before.total_api_calls + 1,
                           total_embeddings_generated |-> call.before.total_embeddings_generated,
                           failed_requests |-> call.before.failed_requests + 1]
                     ELSE call.before
        /\ embedding_cache = call.cache_before

C2_Witness ==
    /\ InvocationFailed
    /\ call.outcome = "Exception"
    /\ Config.ENABLE_COST_TRACKING
    /\ Len(call.text) > Len(call.body)
    /\ metrics.failed_requests = 2

\* C3: with caching enabled, once a call has obtained a vector v from the service for
\* a text, every later call whose text has the same content after truncation returns
\* v and does not invoke the service.
C3_RepeatServedFromCache ==
    (Config.ENABLE_CACHING /\ call.made /\ call.repeat) =>
        /\ ~call.invoked
        /\ call.result = served[call.truncated]

C3_Witness ==
    /\ Config.ENABLE_CACHING
    /\ call.made
    /\ call.repeat
    /\ call.text # call.truncated
    /\ ~check_cost_limits(call.before)

Prefix(text, n) == IF Len(text) > n THEN SubSeq(text, 1, n) ELSE text

\* C4: a text longer than MAX_TEXT_LENGTH is cut to its first MAX_TEXT_LENGTH
\* characters, a text at or below the maximum is left as it is, and that text is what
\* is fingerprinted, what the cache entry is stored under and what is sent to the
\* embedding service.
C4_TruncatedBeforeUse ==
    call.made =>
        LET expected == Prefix(call.text, MAX_TEXT_LENGTH)
        IN  /\ Len(expected) <= MAX_TEXT_LENGTH
            /\ call.truncated = expected
            /\ Config.ENABLE_CACHING => call.cache_key = Md5(expected)
            /\ call.invoked => call.body = expected
            /\ (Config.ENABLE_CACHING /\ call.invoked /\ call.outcome = "ok") =>
                   embedding_cache = Put(call.cache_before, Md5(expected), call.result)

C4_Witness ==
    /\ call.made
    /\ Len(call.text) > MAX_TEXT_LENGTH
    /\ Config.ENABLE_CACHING
    /\ call.invoked
    /\ call.outcome = "ok"
    /\ Md5(call.truncated) \notin DOMAIN call.cache_before

\* The state in which lambda_handler has just been entered
HandlerEntered == pc = "loop" /\ i = 0 /\ record_index = 0 /\ Len(processed_records) = 0

\* C6: tracker and embedding cache are scoped to one invocation: whenever the batch
\* handler is entered, the usage counters are zero and the embedding cache is empty.
C6_StateScopedToInvocation ==
    HandlerEntered => (metrics = NewMetrics /\ embedding_cache = EmptyDict)

C14_NoRecordsGivesZeroRate ==
    (pc = "returned" /\ Len(InputEvents) = 0) =>
        /\ response = [events |-> <<>>]
        /\ successful_embeddings = 0
        /\ failed_embeddings = 0
        /\ success_rate = 0

C14_Witness ==
    /\ pc = "returned"
    /\ "events" \notin DOMAIN data
    /\ response = [events |-> <<>>]
    /\ success_rate = 0

\* generate_embedding came to the limit check (no cache hit) with tracking enabled and
\* the tracked tokens above the budget
LimitCheckFailed ==
    /\ call.made
    /\ ~(Config.ENABLE_CACHING /\ call.cache_key \in DOMAIN call.cache_before)
    /\ Config.ENABLE_COST_TRACKING
    /\ call.before.total_tokens_processed > MAX_TOKENS_PER_EXECUTION

\* C15: when the limit check fails in generate_embedding, the call returns absent
\* without raising, does not invoke the service, hands the tracker no usage event and
\* leaves the four usage counters and the embedding cache as they were.
C15_RefusalChangesNothing ==
    LimitCheckFailed =>
        /\ call.result = NoneVal
        /\ ~call.raised
        /\ ~call.invoked
        /\ call.tracked = <<>>
        /\ metrics = call.before
        /\ embedding_cache = call.cache_before

C15_Witness ==
    /\ LimitCheckFailed
    /\ Config.ENABLE_CACHING
    /\ embedding_cache # EmptyDict
    /\ call.result = NoneVal
    /\ ~call.invoked

-----------------------------------------------------------------------------
(* The trackers: properties *)

\* C5: in both variants, with tracking enabled, once the tokens tracked so far have
\* exceeded the configured budget, the limit check (check_cost_limits in the batch
\* variant, check_rate_limits in the interactive variant) returns false on every
\* later call, whatever tracker operations and clock advances happen in between.
C5_OverBudgetStaysRefused ==
    exceeded =>
        /\ (variant = "batch" /\ Config.ENABLE_COST_TRACKING) =>
               /\ ~check_cost_limits(metrics)
               /\ ret.op = "check_cost_limits" => ret.value = FALSE
        /\ (variant = "interactive" /\ AppConfig.ENABLE_COST_TRACKING) =>
               /\ ~check_rate_limits(cost_metrics, now)
               /\ ret.op = "check_rate_limits" => ret.value = FALSE

C5_Witness ==
    /\ exceeded
    /\ variant = "interactive"
    /\ AppConfig.ENABLE_COST_TRACKING
    /\ cost_metrics.total_llm_requests > 0
    /\ Len(cost_metrics.hourly_requests) = 0
    /\ now > 0
    /\ ret.op = "check_rate_limits"
    /\ ret.value = FALSE

\* The tracked requests whose time lies in the hour that ends at t
InTrailingHour(t) == {k \in 1..Len(asked) : asked[k] <= t /\ t - asked[k] <= 3600}

\* C11: with tracking enabled, a call of check_rate_limits made when at least
\* MAX_REQUESTS_PER_HOUR tracked requests lie within the trailing hour returns false.
C11_HourlyLimitRefuses ==
    (AppConfig.ENABLE_COST_TRACKING /\ ret.op = "check_rate_limits"
       /\ Cardinality(InTrailingHour(ret.at)) >= MAX_REQUESTS_PER_HOUR)
    => ret.value = FALSE

C11_Witness ==
    /\ AppConfig.ENABLE_COST_TRACKING
    /\ ret.op = "check_rate_limits"
    /\ ret.value = FALSE
    /\ ~exceeded
    /\ Cardinality(InTrailingHour(ret.at)) = MAX_REQUESTS_PER_HOUR
    /\ \E k \in InTrailingHour(ret.at) : current_hour(asked[k]) < current_hour(ret.at)

\* C12: when check_rate_limits has refused because the hourly limit was reached, no
\* request has been tracked since and the session token budget is not exceeded, a
\* call of check_rate_limits made one hour after the refusal returns true, at
\* whatever time of day the refusal happened.
C12_AllowedAgainAfterAnHour ==
    (AppConfig.ENABLE_COST_TRACKING /\ ret.op = "check_rate_limits"
       /\ ret.refused_before # Never
       /\ ret.at = ret.refused_before + 3600
       /\ (\A k \in 1..Len(asked) : asked[k] <= ret.refused_before)
       /\ cost_metrics.total_tokens_processed <= MAX_TOKENS_PER_SESSION)
    => ret.value = TRUE

\* The tracked requests that are less than `age` seconds old
TrackedWithin(age) == {k \in 1..Len(asked) : now - asked[k] < age}

\* C31: check_rate_limits counts a tracked request toward the hourly limit for at
\* least 60 and less than 120 minutes after it was tracked: a call made now counts
\* every request tracked less than 60 minutes ago and none tracked 120 minutes or
\* more ago.
C31_CountedBetweenOneAndTwoHours ==
    (variant = "interactive" /\ AppConfig.ENABLE_COST_TRACKING) =>
        LET counted == Len(recent_requests(cost_metrics, now))
        IN  /\ Cardinality(TrackedWithin(60 * 60)) <= counted
            /\ counted <= Cardinality(TrackedWithin(120 * 60))

C31_Witness ==
    /\ variant = "interactive"
    /\ AppConfig.ENABLE_COST_TRACKING
    /\ TrackedWithin(60 * 60) = {}
    /\ Cardinality(TrackedWithin(120 * 60)) = 2
    /\ Len(recent_requests(cost_metrics, now)) = 1
    /\ \E k \in 1..Len(asked) : now - asked[k] >= 120 * 60
    /\ ret.op = "check_rate_limits"
    /\ ret.at = now

-----------------------------------------------------------------------------
(* Startup validation: properties *)

\* The invariants of the configuration the settings in `env` violate: a length, size
\* or timeout that is not positive, a negative retry count and, in the interactive
\* variant, a maximum result size below the default and the placeholder endpoint
Violated ==
    IF variant = "batch"
    THEN {name \in {"MAX_TEXT_LENGTH", "BATCH_SIZE", "BEDROCK_TIMEOUT"} : env[name] <= 0}
         \cup {name \in {"BEDROCK_MAX_RETRIES"} : env[name] < 0}
    ELSE {name \in {"MAX_QUERY_LENGTH", "DEFAULT_SEARCH_SIZE", "MAX_SEARCH_SIZE",
                    "BEDROCK_TIMEOUT"} : env[name] <= 0}
         \cup {name \in {"BEDROCK_MAX_RETRIES"} : env[name] < 0}
         \cup {name \in {"SEARCH_SIZE_ORDER"} : env.MAX_SEARCH_SIZE < env.DEFAULT_SEARCH_SIZE}
         \cup {name \in {"OPENSEARCH_HOST"} :
                   env.OPENSEARCH_HOST = "YOUR_OPENSEARCH_SERVERLESS_ENDPOINT"}

\* The text by which an error of validate() names an invariant
Naming ==
    [MAX_TEXT_LENGTH |-> "MAX_TEXT_LENGTH must be positive",
     BATCH_SIZE |-> "BATCH_SIZE must be positive",
     BEDROCK_TIMEOUT |-> "BEDROCK_TIMEOUT must be positive",
     BEDROCK_MAX_RETRIES |-> "BEDROCK_MAX_RETRIES must be non-negative",
     MAX_QUERY_LENGTH |-> "MAX_QUERY_LENGTH must be positive",
     DEFAULT_SEARCH_SIZE |-> "DEFAULT_SEARCH_SIZE must be positive",
     MAX_SEARCH_SIZE |-> "MAX_SEARCH_SIZE must be positive",
     SEARCH_SIZE_ORDER |-> "MAX_SEARCH_SIZE must be >= DEFAULT_SEARCH_SIZE",
     OPENSEARCH_HOST |-> "Please configure OpenSearch host endpoint"]

\* validate() reported a configuration error: the batch one raised, the interactive
\* one returned a dict that is not empty
Reported ==
    IF variant = "batch" THEN validation.result.raised # NoneVal
    ELSE validation.result.value # EmptyDict

\* The invariants the reported error names
Named ==
    IF variant = "batch"
    THEN {name \in DOMAIN Naming :
              validation.result.raised = "Configuration validation failed: " \o Naming[name]}
    ELSE {name \in DOMAIN Naming :
              \E key \in DOMAIN validation.result.value :
                  validation.result.value[key] = Naming[name]}

\* C16: in each variant validate() reports a configuration error whenever at least
\* one of the listed invariants is violated, and reports none when all of them hold
\* (the session token budget, which the interactive validate() also tests, being
\* positive).
C16_ViolationIsReported ==
    validation.done =>
        /\ Violated # {} => Reported
        /\ (Violated = {} /\ (variant = "interactive" => env.MAX_TOKENS_PER_SESSION > 0))
               => ~Reported

\* C17: when validate() reports an error, the error names every invariant that is
\* violated, not only the first one found.
C17_EveryViolationNamed ==
    (validation.done /\ Reported) => Violated \subseteq Named

-----------------------------------------------------------------------------
(* The query cache: properties *)

\* C7: with query caching enabled, a get that finds an entry under its key returns
\* the payload stored in that entry and keeps the entry when the entry was put less
\* than 300 seconds before the call; when the entry is 300 seconds old or older the
\* get returns absent and the entry is no longer in the cache.
C7_GetHonoursAge ==
    (AppConfig.ENABLE_QUERY_CACHING /\ ret.op = "get") =>
        \A e \in ret.found :
            IF ret.at - e.put_at < 300
            THEN ret.value = e.data /\ e \in Items(query_cache) /\ ret.gone = {}
            ELSE ret.value = NoneVal /\ e.key \notin Keys(query_cache) /\ ret.gone = {e}

C7_Witness ==
    /\ AppConfig.ENABLE_QUERY_CACHING
    /\ ret.op = "get"
    /\ ret.at = 300
    /\ ret.value = NoneVal
    /\ \E e \in ret.found : e.put_at = 0 /\ e.key \notin Keys(query_cache)
    /\ \E e \in Items(query_cache) : ret.at - e.put_at = 150

\* C8: between calls, whatever puts, gets and clock advances came before, the
\* query cache holds at most 50 entries.
C8_AtMostFiftyEntries == Len(query_cache) <= 50

C8_Witness ==
    /\ ret.op = "set"
    /\ ret.len_before = 50
    /\ ret.found = {}
    /\ ret.gone # {}
    /\ Len(query_cache) = 50

\* The put that has just returned stored a new key in a cache of 50 entries
PutOfFiftyFirst == ret.op = "set" /\ ret.len_before = 50 /\ ret.found = {}

\* C9: a put of a new key into a cache of 50 entries removes exactly one entry and
\* leaves 50; the entry removed is one whose insertion time is the oldest, and the
\* time an entry is judged by is the time it was put, which no get has changed.
C9_EvictsOldestInsertion ==
    /\ \A e \in Items(query_cache) : e.timestamp = e.put_at
    /\ PutOfFiftyFirst =>
           /\ Len(query_cache) = 50
           /\ Cardinality(ret.gone) = 1
           /\ \A g \in ret.gone : \A e \in Items(query_cache) : g.put_at <= e.put_at

C9_Witness ==
    /\ PutOfFiftyFirst
    /\ Cardinality(ret.gone) = 1
    /\ query_cache[1].by = <<"qa", 10>>
    /\ query_cache[1].put_at > 0
    /\ \A g \in ret.gone : g.put_at = 0

\* C10: two textually distinct queries never share an entry: a get never returns a
\* payload from an entry that another query stored, and a put never replaces the
\* entry that another query stored.
C10_DistinctQueriesNeverShare ==
    /\ (ret.op = "get" /\ ret.value # NoneVal) =>
           \A e \in ret.found : e.by = <<ret.query, ret.search_size>>
    /\ ret.op = "set" =>
           \A e \in ret.found : e.by = <<ret.query, ret.search_size>>

-----------------------------------------------------------------------------
(* The "Get Answer" flow: properties *)

\* The button has been pressed in this session: every run puts something on the page
Submitted == ui # <<>>

ShownKinds(kind) == {n \in 1..Len(ui) : ui[n].kind = kind}

RequestsTo(service) == {n \in 1..Len(requests) : requests[n].service = service}

NoLogsNotice == [kind |-> "warning", text |-> "No relevant logs found for your question."]

\* A failure of the embedding service: any of the exceptions invoke_model can raise
EmbeddingFailed ==
    \E n \in RequestsTo("embedding") :
        requests[n].outcome \in {"ClientError", "BotoCoreError", "Exception"}

\* C18: submitting an empty or whitespace-only question shows a warning, sends
\* nothing to the embedding service, issues no search request and runs no synthesis
\* step.
C18_BlankQuestionGoesNowhere ==
    (Submitted /\ Strip(user_question) = "") =>
        /\ ShownKinds("warning") # {}
        /\ requests = <<>>
        /\ query_embedding = NoneVal
        /\ answer = NoneVal
        /\ ShownKinds("success") \cup ShownKinds("markdown") = {}

C18_Witness ==
    /\ Submitted
    /\ user_question = " "
    /\ ShownKinds("warning") # {}
    /\ requests = <<>>
    /\ cost_metrics.total_embeddings_generated > 0

\* C19: when embedding the question fails, an error is shown and the flow stops at
\* that step: no search request is issued and no output of a later step, neither the
\* 'no relevant logs' notice nor an answer, is put on the page.
C19_EmbeddingFailureStopsFlow ==
    (Submitted /\ EmbeddingFailed) =>
        /\ ShownKinds("error") # {}
        /\ RequestsTo("search") = {}
        /\ \A n \in 1..Len(ui) : ui[n] # NoLogsNotice
        /\ answer = NoneVal

\* C20: when the search returns at least one match, the synthesis model is invoked
\* exactly once, with the grounding prompt, and the text presented as the answer is
\* what the model generated, not the prompt; the retrieved logs are shown with it.
C20_AnswerComesFromModel ==
    (Submitted /\ relevant_logs # <<>>) =>
        /\ Cardinality(RequestsTo("synthesis")) = 1
        /\ \A n \in RequestsTo("synthesis") :
               requests[n].body = Prompt(user_question, relevant_logs)
        /\ answer # Prompt(user_question, relevant_logs)
        /\ \E n \in 1..Len(ui) : ui[n] = [kind |-> "markdown", text |-> answer]
        /\ \E n \in 1..Len(ui) : ui[n] = [kind |-> "json", text |-> relevant_logs]

-----------------------------------------------------------------------------
(* The structured logger: properties *)

\* C21: a failure inside the structured logger never aborts the operation that
\* logged: an invocation whose log entries carry a field that cannot be serialized
\* still runs its loop and returns its output.
C21_LogFailureNeverAborts ==
    LogRaises([lambda_request_id |-> request_id]) => pc \in {"loop", "returned"}

-----------------------------------------------------------------------------
(* The batch variant: the tracker and the cache as the Embedding Client uses them *)

\* C22: with tracking enabled, each track_embedding_request(n, success) call adds
\* exactly n to the tokens processed, 1 to the call count and 1 to exactly one of the
\* success and failure counters, so that in every reachable state
\* total_api_calls = total_embeddings_generated + failed_requests.
C22_TrackerArithmetic ==
    Config.ENABLE_COST_TRACKING =>
        /\ metrics.total_api_calls
               = metrics.total_embeddings_generated + metrics.failed_requests
        /\ call.made =>
               /\ Len(call.tracked) <= 1
               /\ call.tracked = <<>> => metrics = call.before
               /\ \A n \in 1..Len(call.tracked) :
                      LET t == call.tracked[n]
                          b == call.before
                      IN  /\ metrics.total_tokens_processed
                                 = b.total_tokens_processed + t.text_length
                          /\ metrics.total_api_calls = b.total_api_calls + 1
                          /\ metrics.total_embeddings_generated
                                 = b.total_embeddings_generated + (IF t.success THEN 1 ELSE 0)
                          /\ metrics.failed_requests
                                 = b.failed_requests + (IF t.success THEN 0 ELSE 1)

C22_Witness ==
    /\ Config.ENABLE_COST_TRACKING
    /\ call.made
    /\ call.tracked # <<>>
    /\ ~call.tracked[1].success
    /\ call.tracked[1].text_length = MAX_TEXT_LENGTH
    /\ metrics.total_embeddings_generated > 0
    /\ metrics.failed_requests > 0

\* The latest call of generate_embedding found its fingerprint in the cache
CacheWasHit ==
    /\ call.made
    /\ Config.ENABLE_CACHING
    /\ call.cache_key \in DOMAIN call.cache_before

\* C23: on an embedding-cache hit generate_embedding returns the cached vector,
\* records exactly one successful usage event with the length of the text (so the
\* tokens processed grow on a hit) and makes no external invocation; the lookup comes
\* before the limit check, so this holds also when the budget is already exceeded.
C23_HitServedWithoutInvocation ==
    CacheWasHit =>
        /\ call.result = call.cache_before[call.cache_key]
        /\ ~call.raised
        /\ call.tracked = <<[text_length |-> Len(call.truncated), success |-> TRUE]>>
        /\ ~call.invoked
        /\ call.body = NoneVal
        /\ embedding_cache = call.cache_before
        /\ Config.ENABLE_COST_TRACKING =>
               /\ metrics.total_tokens_processed
                      = call.before.total_tokens_processed + Len(call.truncated)
               /\ metrics.total_embeddings_generated
                      = call.before.total_embeddings_generated + 1

C23_Witness ==
    /\ CacheWasHit
    /\ Config.ENABLE_COST_TRACKING
    /\ call.before.total_tokens_processed > MAX_TOKENS_PER_EXECUTION
    /\ call.result \in Embeddings
    /\ metrics.total_tokens_processed > call.before.total_tokens_processed

\* C24: embedding-cache entries are write-once: once an entry exists for a
\* fingerprint, no later step changes its value or removes it, for as long as the
\* cache lives.
C24_CacheEntriesWriteOnce ==
    [][\A key \in DOMAIN embedding_cache :
          /\ key \in DOMAIN embedding_cache'
          /\ embedding_cache'[key] = embedding_cache[key]]_vars

C24_Witness ==
    /\ CacheWasHit
    /\ call.outcome = NoneVal
    /\ Cardinality(DOMAIN call.cache_before) = 2
    /\ embedding_cache = call.cache_before
    /\ embedding_cache[call.cache_key] = call.result

\* C27: when generate_embedding truncates a text, the truncation log entry reports
\* the text's original, pre-truncation length as the original length and the
\* configured maximum as the truncated length.
C27_TruncationLogReportsOriginalLength ==
    (call.made /\ Len(call.text) > MAX_TEXT_LENGTH) =>
        /\ Len(call.log) = 1
        /\ call.log[1].original_length = Len(call.text)
        /\ call.log[1].truncated_length = MAX_TEXT_LENGTH

\* The positions of the output whose record carries an embedding
AnnotatedPositions ==
    {j \in 1..Len(response.events) :
        IsMapping(response.events[j]) /\ "log_embedding" \in DOMAIN response.events[j]}

\* C28: at the end of every batch invocation in which logging does not fail, the
\* handler's successful and failed counts sum to the number of input records, and
\* the successful count is the number of records annotated in that invocation.
C28_CountsSumToRecords ==
    pc = "returned" =>
        /\ successful_embeddings + failed_embeddings = Len(InputEvents)
        /\ successful_embeddings = Cardinality(AnnotatedPositions)

\* C29: with cost tracking enabled, the embedding service is never invoked in a
\* state where the tokens processed already exceed MAX_TOKENS_PER_EXECUTION, with
\* caching on or off.
C29_NoInvocationOverBudget ==
    (Config.ENABLE_COST_TRACKING /\ call.made /\ call.invoked) =>
        call.before.total_tokens_processed <= MAX_TOKENS_PER_EXECUTION

C29_Witness ==
    /\ Config.ENABLE_COST_TRACKING
    /\ Config.ENABLE_CACHING
    /\ call.made
    /\ call.invoked
    /\ call.before.total_tokens_processed = MAX_TOKENS_PER_EXECUTION
    /\ metrics.total_tokens_processed > MAX_TOKENS_PER_EXECUTION

\* C30: with cost tracking enabled and caching disabled, the tokens processed never
\* exceed MAX_TOKENS_PER_EXECUTION + MAX_TEXT_LENGTH: the budget is overshot by at
\* most one truncated text.
C30_OvershootAtMostOneText ==
    (Config.ENABLE_COST_TRACKING /\ ~Config.ENABLE_CACHING) =>
        metrics.total_tokens_processed <= MAX_TOKENS_PER_EXECUTION + MAX_TEXT_LENGTH

C30_Witness ==
    /\ Config.ENABLE_COST_TRACKING
    /\ ~Config.ENABLE_CACHING
    /\ metrics.total_tokens_processed = MAX_TOKENS_PER_EXECUTION + MAX_TEXT_LENGTH
    /\ call.made
    /\ ~call.invoked
    /\ call.result = NoneVal
    /\ metrics = call.before

-----------------------------------------------------------------------------
(* The "Get Answer" flow: the tracker *)

\* The latest run sent the question to the embedding service
EmbeddingInvoked == Submitted /\ RequestsTo("embedding") # {}

\* C25: every submitted question is tracked as a request and the limit gate is
\* consulted before the budgeted call: with tracking enabled, a question sent to the
\* embedding service has been counted by track_query, and it is not sent when the
\* limit check fails on the tracker as it was before the call.
C25_QuestionsTrackedAndGated ==
    (EmbeddingInvoked /\ AppConfig.ENABLE_COST_TRACKING) =>
        /\ cost_metrics.total_queries > 0
        /\ asked # <<>>
        /\ check_rate_limits(ret.before, now)

\* C26: a failed embedding invocation is not counted as a generated embedding: the
\* embeddings-generated counter changes only in a run in which the embedding service
\* returned a vector.
C26_FailedEmbeddingNotCounted ==
    [][cost_metrics'.total_embeddings_generated # cost_metrics.total_embeddings_generated
          => /\ query_embedding' # NoneVal
             /\ \E n \in 1..Len(requests') :
                    /\ requests'[n].service = "embedding"
                    /\ requests'[n].outcome = "ok"]_vars

====
